---------------------------- MODULE Spec2Model ----------------------------
(***************************************************************************)
(* The interview workflow coordinator of backend/src/services/             *)
(* agentWorkflow.ts with the four agents it sequences                      *)
(* (backend/src/agents/orchestratorAgent.ts holds the Decision Engine, the *)
(* Analyzer and the Question Generator; unnamed/part_009 the Evaluation    *)
(* Generator) and the two controllers that call it.                        *)
(*                                                                         *)
(* Node runs one handler at a time and switches handlers only at an await, *)
(* so every action below is the code between two awaits of one request.    *)
(* JavaScript objects live in `heap`; `store` (activeSessions) and the     *)
(* requests' locals hold references into it, so aliasing is explicit.      *)
(***************************************************************************)
EXTENDS Integers, Sequences, FiniteSets, TLC

\* ------------------------------------------------------------------ bounds

\* History length from which no further submitAnswer is begun (Spec).
MaxHist == 3
\* The same for the long interviews of SpecLong.
MaxHistLong == 16
\* The same for the concurrent requests of SpecConc.
MaxHistConc == 3
\* The same for the two sessions of SpecTwo.
MaxHistTwo == 2
\* The same for the interviews of SpecAsk.
MaxHistAsk == 8
\* The same for the interviews of SpecTurns.
MaxHistTurns == 5
\* Largest value Date.now() takes.
MaxClock == 2

\* ------------------------------------------------------------- JS values

\* A flag of a parsed model reply is true, false or missing, or, the reply
\* being unvalidated, a value of another type such as a non-empty string.
JsTrue == "true"
JsFalse == "false"
Undef == "undefined"
JsString == "string"
\* A numeric field that is missing (undefined).
NoScore == -1

ToJsBool(b) == IF b THEN JsTrue ELSE JsFalse
\* ToBoolean: false and undefined are falsy, a non-empty string is truthy.
Truthy(x) == x \in {JsTrue, JsString}
\* `x || d` on an optional number: 0 and undefined are falsy.
OrDefault(x, d) == IF x = NoScore \/ x = 0 THEN d ELSE x

\* A text is known by its identity and its length in characters and words.
Txt(id, chars, words) == [id |-> id, chars |-> chars, words |-> words]

\* Placeholders: an object with none of the expected fields.
NoAnalysis ==
  [isChatty |-> Undef, isTooShort |-> Undef, isOffTopic |-> Undef,
   communicationScore |-> NoScore, technicalScore |-> NoScore,
   behavioralScore |-> NoScore, confidenceScore |-> NoScore,
   engagementScore |-> NoScore, notes |-> Undef]

NoMetadata == [present |-> FALSE, difficulty |-> Undef, focusAreas |-> <<>>,
               provideHint |-> Undef]

NoDecision ==
  [nextAgent |-> Undef, nextIntent |-> Undef, metadata |-> NoMetadata,
   shouldEnd |-> Undef]

NoText == Txt("", 0, 0)

\* --------------------------------------------------------------- the sets

SessionIds == {"s1", "s2"}
Procs == {1, 2}
Refs == 1..(2 * Cardinality(Procs) + Cardinality(SessionIds))
Roles == {"backend"}

ShortAnswer == Txt("answer_short", 40, 8)
LongAnswer == Txt("answer_long", 1800, 300)
AnswerTexts == {ShortAnswer, LongAnswer}

VARIABLES
  store,   \* activeSessions: session id -> reference of its InterviewState
  heap,    \* reference -> InterviewState object (history is in hist)
  hist,    \* session id -> the history array every copy of its state shares
  procs,   \* request slot -> the request's position and locals
  now      \* Date.now()

vars == <<store, heap, hist, procs, now>>


\* ---------------------------------------------------- the model service

\* What a stage's model call comes back with: the call fails or its text
\* does not parse ("fail"), the text parses to null ("null"), or it parses
\* to the value val ("json"; for the Question Generator, the reply text).
FailReply(none) == [kind |-> "fail", val |-> none]
NullReply(none) == [kind |-> "null", val |-> none]
JsonReply(v) == [kind |-> "json", val |-> v]

\* How a call inside a try ends: with a value, or with an exception.
Returned(v) == [threw |-> FALSE, val |-> v]
Thrown(none) == [threw |-> TRUE, val |-> none]

Analysis(chatty, short, off, score, notes) ==
  [isChatty |-> chatty, isTooShort |-> short, isOffTopic |-> off,
   communicationScore |-> score, technicalScore |-> score,
   behavioralScore |-> score, confidenceScore |-> score,
   engagementScore |-> score, notes |-> notes]

\* Parsed Analyzer replies: a strong on-topic answer, a weak off-topic one,
\* and an object with none of the expected fields.
LlmAnalyses ==
  { Analysis(JsFalse, JsFalse, JsFalse, 8, "llm: solid answer"),
    Analysis(JsFalse, JsTrue, JsTrue, 3, "llm: off topic"),
    NoAnalysis }

\* An on-topic analysis with the five scores given one by one.
Scored(communication, technical, behavioral, confidence, engagement) ==
  [isChatty |-> JsFalse, isTooShort |-> JsFalse, isOffTopic |-> JsFalse,
   communicationScore |-> communication, technicalScore |-> technical,
   behavioralScore |-> behavioral, confidenceScore |-> confidence,
   engagementScore |-> engagement, notes |-> "llm: scored"]

\* Parsed Analyzer replies with scores from 0 to 10: the lowest, the
\* highest, a mean that rounds up, one that rounds down, and a single 0.
ScoreAnalyses ==
  { Scored(0, 0, 0, 0, 0), Scored(10, 10, 10, 10, 10), Scored(7, 8, 8, 8, 8),
    Scored(3, 2, 2, 2, 3), Scored(0, 6, 6, 6, 6) }

Metadata(difficulty, focusAreas, hint) ==
  [present |-> TRUE, difficulty |-> difficulty, focusAreas |-> focusAreas,
   provideHint |-> hint]

Decision(agent, intent, metadata, end) ==
  [nextAgent |-> agent, nextIntent |-> intent, metadata |-> metadata,
   shouldEnd |-> end]

ContinueDecision ==
  Decision("interviewer", "ask_technical", Metadata("medium", << "llm focus" >>, JsFalse),
           JsFalse)

\* The values of nextIntent.
Intents ==
  {"ask_behavioral", "ask_technical", "ask_system_design", "ask_role_specific",
   "probe_answer", "ask_closing", "end_interview", "continue_conversation"}

\* Parsed Decision Engine replies that continue, one for each intent.
IntentDecisions ==
  {Decision("interviewer", i, Metadata("medium", << >>, JsFalse), JsFalse) : i \in Intents}

\* The values of nextAgent.
NextAgents == {"interviewer", "analyzer", "feedback", "end"}

\* Parsed Decision Engine replies with each nextAgent and each shouldEnd.
RouteDecisions ==
  {Decision(agent, "ask_technical", Metadata("medium", << >>, JsFalse), end) :
     agent \in NextAgents, end \in {JsTrue, JsFalse, Undef, JsString}}

\* Parsed Decision Engine replies: continue, end, and an object with none of
\* the expected fields.
LlmDecisions ==
  { ContinueDecision,
    Decision("feedback", "end_interview", Metadata(Undef, << >>, Undef), JsTrue),
    NoDecision }

LlmQuestion == Txt("llm_question", 120, 20)
\* A reply of white space only.
BlankText == Txt("llm_blank", 3, 0)
\* Replies of the Question Generator's model: a question, an empty text and a
\* blank one.
LlmMessages == { LlmQuestion, NoText, BlankText }

\* String.prototype.trim on a model reply: a text without a word is empty
\* once trimmed.
Trim(t) == IF t.words = 0 THEN NoText ELSE t

AnalyzerReplies ==
  {FailReply(NoAnalysis), NullReply(NoAnalysis)} \cup {JsonReply(a) : a \in LlmAnalyses}
OrchestratorReplies ==
  {FailReply(NoDecision), NullReply(NoDecision)} \cup {JsonReply(d) : d \in LlmDecisions}
InterviewerReplies ==
  {FailReply(NoText)} \cup {JsonReply(m) : m \in LlmMessages}

\* ------------------------------------------------------------- Analyzer

createFallbackAnalysis(answer) ==
  LET isChatty == answer.words > 250 \/ answer.chars > 1500
      isTooShort == answer.words < 50 \/ answer.chars < 200
      baseScore == IF isTooShort THEN 4 ELSE IF isChatty THEN 5 ELSE 6
  IN Analysis(ToJsBool(isChatty), ToJsBool(isTooShort), JsFalse, baseScore,
              IF isTooShort THEN "fallback: brief"
              ELSE IF isChatty THEN "fallback: verbose"
              ELSE "fallback: reasonable")

\* The reply is returned as parsed, unvalidated (null included); a failed
\* call or parse is caught inside the agent.
runAnalyzerAgent(answer, reply) ==
  IF reply.kind = "fail" THEN JsonReply(createFallbackAnalysis(answer)) ELSE reply

\* processUserResponse's catch around the Analyzer.
DefaultAnalysis(answer) ==
  Analysis(JsFalse, ToJsBool(answer.chars < 200), JsFalse, 5, "Response received")

\* The try of step 2: a null analysis throws at the log line that reads
\* its fields.
AnalyzerTry(answer, reply) ==
  LET got == runAnalyzerAgent(answer, reply)
  IN IF got.kind = "null" THEN Thrown(NoAnalysis) ELSE Returned(got.val)

\* Step 2 of processUserResponse, try and catch.
AnalyzerStage(answer, reply) ==
  LET t == AnalyzerTry(answer, reply)
  IN IF t.threw THEN Returned(DefaultAnalysis(answer)) ELSE t

RECURSIVE Gcd(_, _)
Gcd(a, b) == IF b = 0 THEN a ELSE Gcd(b, a % b)

\* The fraction n/d in lowest terms.
Frac(n, d) == LET g == Gcd(n, d) IN IF g = 0 THEN <<0, 1>> ELSE <<n \div g, d \div g>>

UserCount(h) == Cardinality({i \in 1..Len(h) : h[i].from = "user"})
AgentCount(h) == Cardinality({i \in 1..Len(h) : h[i].from = "agent"})

\* Faulty variant: the mean of the old average and the last length.
NewAvg_Halved(currentAvg, totalAnswers, lastAnswerLength) ==
  Frac(currentAvg[1] + lastAnswerLength * currentAvg[2], currentAvg[2] * 2)

\* ((currentAvg * (totalAnswers - 1)) + lastAnswerLength) / totalAnswers, on
\* fractions.
NewAvg(currentAvg, totalAnswers, lastAnswerLength) ==
  Frac(currentAvg[1] * (totalAnswers - 1) + lastAnswerLength * currentAvg[2],
       currentAvg[2] * totalAnswers)

\* Faulty variant: a flag once raised stays raised.
updateAnalytics_StickyFlags(state, h, analysis) ==
  [state EXCEPT !.analytics =
     [@ EXCEPT !.isChatty = ToJsBool(Truthy(@) \/ Truthy(analysis.isChatty)),
               !.isTooShort = ToJsBool(Truthy(@) \/ Truthy(analysis.isTooShort)),
               !.isOffTopic = ToJsBool(Truthy(@) \/ Truthy(analysis.isOffTopic)),
               !.avgAnswerLength =
                  NewAvg(@, UserCount(h), IF Len(h) = 0 THEN 0 ELSE h[Len(h)].content.chars),
               !.communicationScore = analysis.communicationScore,
               !.technicalScore = analysis.technicalScore,
               !.behavioralScore = analysis.behavioralScore,
               !.confidenceScore = analysis.confidenceScore,
               !.engagementScore = analysis.engagementScore,
               !.notes = Append(@, analysis.notes)]]

\* Faulty variant: the state is returned with no analysis merged.
updateAnalytics_NotMerged(state, h, analysis) == state

\* The copy shares the history array; analytics and notes are new objects.
updateAnalytics(state, h, analysis) ==
  LET totalAnswers == UserCount(h)
      currentAvg == state.analytics.avgAnswerLength
      lastAnswerLength == IF Len(h) = 0 THEN 0 ELSE h[Len(h)].content.chars
      newAvg == NewAvg(currentAvg, totalAnswers, lastAnswerLength)
  IN [state EXCEPT !.analytics =
        [isChatty |-> analysis.isChatty, isTooShort |-> analysis.isTooShort,
         isOffTopic |-> analysis.isOffTopic, avgAnswerLength |-> newAvg,
         communicationScore |-> analysis.communicationScore,
         technicalScore |-> analysis.technicalScore,
         behavioralScore |-> analysis.behavioralScore,
         confidenceScore |-> analysis.confidenceScore,
         engagementScore |-> analysis.engagementScore,
         notes |-> Append(state.analytics.notes, analysis.notes)]]

\* -------------------------------------------------------- Decision Engine

\* The question count from which the fallback rules end the interview.
EndAfter == 8

\* A missing score compares false with every number.
ScoreAbove(x, n) == x # NoScore /\ x > n
ScoreBelow(x, n) == x # NoScore /\ x < n

EndDecision == Decision("feedback", "end_interview", Metadata(Undef, << >>, Undef), JsTrue)

\* createFallbackOrchestration below the cap: steer back an off-topic
\* answer, else pick the intent by the question count and adapt.
ContinueRules(questionCount, analysis) ==
  IF Truthy(analysis.isOffTopic)
    THEN Decision("interviewer", "continue_conversation",
                  Metadata("medium", << "Steer back to topic" >>, JsFalse), JsFalse)
  ELSE
    LET nextIntent == IF questionCount <= 2 THEN "ask_behavioral"
                      ELSE IF questionCount <= 5 THEN "ask_role_specific"
                      ELSE "ask_closing"
        difficulty == IF questionCount <= 2 THEN "easy"
                      ELSE IF questionCount <= 5
                        THEN (IF ScoreAbove(analysis.technicalScore, 7) THEN "hard" ELSE "medium")
                      ELSE "easy"
        focusAreas ==
          (IF Truthy(analysis.isTooShort)
             THEN << "Ask open-ended questions requiring elaboration" >> ELSE << >>)
          \o (IF Truthy(analysis.isChatty)
                THEN << "Ask focused, specific questions" >> ELSE << >>)
          \o (IF ScoreBelow(analysis.technicalScore, 5)
                THEN << "Provide easier technical questions with hints" >> ELSE << >>)
    IN Decision("interviewer", nextIntent,
                Metadata(difficulty,
                         IF Len(focusAreas) > 0 THEN focusAreas ELSE << "Continue naturally" >>,
                         ToJsBool(ScoreBelow(analysis.technicalScore, 4))),
                JsFalse)

\* Faulty variant: the cap compared with > instead of >=.
createFallbackOrchestration_LateCap(questionCount, analysis) ==
  IF questionCount > EndAfter THEN EndDecision ELSE ContinueRules(questionCount, analysis)

createFallbackOrchestration(questionCount, analysis) ==
  IF questionCount >= EndAfter THEN EndDecision ELSE ContinueRules(questionCount, analysis)

\* The reply is returned as parsed, unvalidated.
runOrchestratorAgent(questionCount, analysis, reply) ==
  IF reply.kind = "fail"
    THEN JsonReply(createFallbackOrchestration(questionCount, analysis))
    ELSE reply

\* processUserResponse's catch around the Decision Engine.
DefaultDecision(questionCount) ==
  Decision(IF questionCount >= EndAfter THEN "feedback" ELSE "interviewer",
           IF questionCount >= EndAfter THEN "end_interview" ELSE "ask_role_specific",
           Metadata("medium", << >>, Undef),
           ToJsBool(questionCount >= EndAfter))

\* The try of step 3: a null decision throws at the log line that reads
\* its fields.
OrchestratorTry(questionCount, analysis, reply) ==
  LET got == runOrchestratorAgent(questionCount, analysis, reply)
  IN IF got.kind = "null" THEN Thrown(NoDecision) ELSE Returned(got.val)

\* Step 3 of processUserResponse, try and catch.
OrchestratorStage(questionCount, analysis, reply) ==
  LET t == OrchestratorTry(questionCount, analysis, reply)
  IN IF t.threw THEN Returned(DefaultDecision(questionCount)) ELSE t

\* Where a stage's output came from: the model, the agent's fallback, or
\* the caller's default.
DecisionSource(reply) ==
  IF reply.kind = "fail" THEN "fallback"
  ELSE IF reply.kind = "null" THEN "default" ELSE "llm"

\* Faulty variant: only nextAgent is read, and compared with 'end'.
EndsInterview_AgentEnd(decision) ==
  decision.nextAgent = "end"

\* Step 4 of processUserResponse: the branch that ends the interview.
EndsInterview(decision) ==
  decision.nextAgent = "feedback" \/ Truthy(decision.shouldEnd)

\* ----------------------------------------------------- Question Generator

FallbackQuestions(intent, role) ==
  IF intent = "ask_technical"
    THEN << Txt("technical_0", 56, 0), Txt("technical_1", 60, 0),
            Txt("technical_2", 60, 0) >>
  ELSE IF intent = "ask_role_specific"
    THEN << Txt("role_specific_0", 49, 0), Txt("role_specific_1", 62, 0) >>
  ELSE IF intent = "ask_closing"
    THEN << Txt("closing_0", 58, 0), Txt("closing_1", 80, 0) >>
  ELSE << Txt("behavioral_0", 91, 0), Txt("behavioral_1", 80, 0),
          Txt("behavioral_2", 61, 0) >>

\* Faulty variant: the first entry of the table, whatever the count.
createFallbackQuestion_FirstEntry(state, decision) ==
  FallbackQuestions(decision.nextIntent, state.role)[1]

createFallbackQuestion(state, decision) ==
  LET questions == FallbackQuestions(decision.nextIntent, state.role)
  IN questions[(state.questionCount % Len(questions)) + 1]

TellMeMore == Txt("tell_me_more", 45, 0)
ThankYou == Txt("thank_you", 114, 0)

\* A decision with no metadata throws while the prompt is built, outside
\* the agent's try; a failed call is caught inside it.
runInterviewerAgent(state, decision, reply) ==
  IF ~decision.metadata.present THEN Thrown(NoText)
  ELSE IF reply.kind = "fail" THEN Returned(createFallbackQuestion(state, decision))
  ELSE Returned(Trim(reply.val))

\* Faulty variant: step 5 without its catch.
InterviewerStage_NoCatch(state, decision, reply) ==
  runInterviewerAgent(state, decision, reply)

\* Step 5 of processUserResponse, try and catch.
InterviewerStage(state, decision, reply) ==
  LET t == runInterviewerAgent(state, decision, reply)
  IN IF t.threw THEN Returned(TellMeMore) ELSE t

\* Faulty variant: main lasts one question longer.
PhaseOf_LateClosing(questionCount) ==
  IF questionCount <= 2 THEN "opening"
  ELSE IF questionCount <= 7 THEN "main"
  ELSE "closing"

\* The phase of a session that has asked questionCount questions.
PhaseOf(questionCount) ==
  IF questionCount <= 2 THEN "opening"
  ELSE IF questionCount <= 6 THEN "main"
  ELSE "closing"

\* --------------------------------------------------- Evaluation Generator

Feedback(overall, scores, recommendation) ==
  [overallScore |-> overall, scores |-> scores, recommendation |-> recommendation]

\* Parsed Evaluation Generator replies: a consistent report, one whose
\* recommendation does not match its score, and an object with no fields.
LlmFeedbacks ==
  { Feedback(9, << 9, 9, 9, 9, 9 >>, "STRONG_HIRE"),
    Feedback(9, << 9, 9, 9, 9, 9 >>, "NO_HIRE"),
    Feedback(NoScore, << >>, Undef) }

FeedbackReplies ==
  {FailReply(Feedback(NoScore, << >>, Undef)), NullReply(Feedback(NoScore, << >>, Undef))}
    \cup {JsonReply(f) : f \in LlmFeedbacks}

RecommendationOf(overallScore) ==
  IF overallScore >= 8 THEN "STRONG_HIRE"
  ELSE IF overallScore >= 6 THEN "HIRE"
  ELSE IF overallScore >= 4 THEN "MAYBE"
  ELSE "NO_HIRE"

\* Math.round of total / 5.
RoundFifth(total) == (2 * total + 5) \div 10

createFallbackFeedback(state) ==
  LET a == state.analytics
      scores == << OrDefault(a.communicationScore, 5), OrDefault(a.technicalScore, 5),
                   OrDefault(a.behavioralScore, 5), OrDefault(a.confidenceScore, 5),
                   OrDefault(a.engagementScore, 5) >>
      overallScore == RoundFifth(scores[1] + scores[2] + scores[3] + scores[4] + scores[5])
  IN Feedback(overallScore, scores, RecommendationOf(overallScore))

\* The try of runFeedbackAgent: the call or the parse fails, or the fields
\* of a null reply are read.
FeedbackTry(reply) ==
  IF reply.kind = "json" THEN Returned(reply.val) ELSE Thrown(reply.val)

\* runFeedbackAgent, try and catch.
runFeedbackAgent(state, reply) ==
  LET t == FeedbackTry(reply)
  IN IF t.threw THEN Returned(createFallbackFeedback(state)) ELSE t

\* ----------------------------------------------------------------- state

InitialAnalytics ==
  [isChatty |-> JsFalse, isTooShort |-> JsFalse, isOffTopic |-> Undef,
   avgAnswerLength |-> <<0, 1>>,
   communicationScore |-> NoScore, technicalScore |-> NoScore,
   behavioralScore |-> NoScore, confidenceScore |-> NoScore,
   engagementScore |-> NoScore, notes |-> <<>>]

\* endTime 0: the field is not set.
NewState(sid, role, t) ==
  [sessionId |-> sid, role |-> role, seniority |-> "mid",
   interactionMode |-> "chat", analytics |-> InitialAnalytics,
   status |-> "opening", questionCount |-> 0, startTime |-> t, endTime |-> 0]

Message(type, from, content) == [type |-> type, from |-> from, content |-> content]

Greetings(role) ==
  << Txt("greeting_0", 155, 0), Txt("greeting_1", 159, 0), Txt("greeting_2", 138, 0) >>

\* Math.floor(Math.random() * 3) is k.
generateOpeningQuestion(role, k) == Greetings(role)[k + 1]

\* -------------------------------------------------------------- requests

NoResult ==
  [error |-> "none", message |-> NoText, shouldEnd |-> FALSE, phase |-> "none",
   questionCount |-> 0, evaluation |-> FALSE, overallScore |-> NoScore,
   scores |-> << >>, recommendation |-> Undef]

Idle ==
  [op |-> "none", sid |-> "none", pc |-> "idle", text |-> NoText,
   state |-> 0, upd |-> 0, analysis |-> NoAnalysis, decision |-> NoDecision,
   how |-> "none", res |-> NoResult]

Done(op, sid, res) == [Idle EXCEPT !.op = op, !.sid = sid, !.pc = "done", !.res = res]

\* A slot is free before its first request and once its request is answered;
\* a new request takes the first free slot.
Free(p) == procs[p].pc \in {"idle", "done"}
Takes(p) == Free(p) /\ \A q \in Procs : Free(q) => p <= q
InFlight == \E p \in Procs : ~Free(p)

\* --------------------------------------------------------------- the heap

\* Faulty variant: one object is shared by every state that is created.
Alloc_Shared(h) == CHOOSE r \in Refs : \A q \in Refs : r <= q

\* A new object: a reference no object has.
Alloc(h) == CHOOSE r \in Refs \ DOMAIN h : \A q \in Refs \ DOMAIN h : r <= q

Live(st, ps) == {st[s] : s \in DOMAIN st} \cup {ps[p].state : p \in Procs}
                  \cup {ps[p].upd : p \in Procs}

\* Objects no reference reaches are collected.
Collect(h, st, ps) == [r \in DOMAIN h \cap Live(st, ps) |-> h[r]]

Put(f, k, v) == [x \in DOMAIN f \cup {k} |-> IF x = k THEN v ELSE f[x]]
Drop(f, k) == [x \in DOMAIN f \ {k} |-> f[x]]

\* ------------------------------------------------------------- operations

\* Faulty variant: the opening question is pushed and not counted.
StartSession_NotCounted(p, sid, role, k) ==
  /\ Takes(p)
  /\ sid \notin DOMAIN hist
  /\ LET r == Alloc(heap)
         msg == generateOpeningQuestion(role, k)
         st == NewState(sid, role, now)
     IN /\ store' = Put(store, sid, r)
        /\ hist' = Put(hist, sid, << Message("question", "agent", msg) >>)
        /\ procs' = [procs EXCEPT ![p] =
                       Done("start", sid, [NoResult EXCEPT !.message = msg,
                                                            !.phase = st.status])]
        /\ heap' = Collect(Put(heap, r, st), store', procs')
  /\ UNCHANGED now

\* initializeInterviewSession, called by startInterview with a fresh id: it
\* has no await, so the state with questionCount 0 is never seen by others.
StartSession(p, sid, role, k) ==
  /\ Takes(p)
  /\ sid \notin DOMAIN hist
  /\ LET r == Alloc(heap)
         msg == generateOpeningQuestion(role, k)
         st == [NewState(sid, role, now) EXCEPT !.questionCount = 1]
     IN /\ store' = Put(store, sid, r)
        /\ hist' = Put(hist, sid, << Message("question", "agent", msg) >>)
        /\ procs' = [procs EXCEPT ![p] =
                       Done("start", sid, [NoResult EXCEPT !.message = msg,
                                                            !.phase = st.status])]
        /\ heap' = Collect(Put(heap, r, st), store', procs')
  /\ UNCHANGED now

\* Faulty variant: the phase is set, the endTime is not.
EndSession_NoEndTime(p, sid) ==
  /\ Takes(p)
  /\ procs' = [procs EXCEPT ![p] =
                 Done("end", sid, [NoResult EXCEPT !.phase = "ended"])]
  /\ IF sid \in DOMAIN store
       THEN heap' = Collect([heap EXCEPT ![store[sid]].status = "ended"], store, procs')
       ELSE heap' = Collect(heap, store, procs')
  /\ UNCHANGED <<store, hist, now>>

\* endInterview -> endInterviewSession: no await; an unknown id is a no-op
\* and the controller answers success either way.
EndSession(p, sid) ==
  /\ Takes(p)
  /\ procs' = [procs EXCEPT ![p] =
                 Done("end", sid, [NoResult EXCEPT !.phase = "ended"])]
  /\ IF sid \in DOMAIN store
       THEN heap' = Collect([heap EXCEPT ![store[sid]].status = "ended",
                                         ![store[sid]].endTime = now],
                            store, procs')
       ELSE heap' = Collect(heap, store, procs')
  /\ UNCHANGED <<store, hist, now>>

\* The messages of the errors processUserResponse can end with.
NotFoundMessage == "Session not found. Please start a new interview."
OtherMessage == "TypeError"

\* Faulty variant: every error is answered 500.
ErrorOf_Always500(errorMessage) == "ProcessingError"

\* sendResponse's catch: 404 for the lookup's error, 500 for any other.
ErrorOf(errorMessage) ==
  IF errorMessage = NotFoundMessage THEN "SessionNotFound" ELSE "ProcessingError"

\* processUserResponse up to its first await: the lookup, and the answer
\* pushed onto the session's history array.
BeginSubmit(p, sid, text) ==
  /\ Takes(p)
  /\ IF sid \notin DOMAIN store
       THEN /\ procs' = [procs EXCEPT ![p] =
                           Done("submit", sid,
                                [NoResult EXCEPT !.error = ErrorOf(NotFoundMessage)])]
            /\ hist' = hist
       ELSE /\ hist' = [hist EXCEPT ![sid] = Append(@, Message("answer", "user", text))]
            /\ procs' = [procs EXCEPT ![p] =
                           [Idle EXCEPT !.op = "submit", !.sid = sid, !.pc = "analyzer",
                                        !.text = text, !.state = store[sid]]]
  /\ heap' = Collect(heap, store, procs')
  /\ UNCHANGED <<store, now>>

\* An exception leaves processUserResponse: sendResponse answers 500.
Fails(p) ==
  /\ procs' = [procs EXCEPT ![p] =
                 Done(procs[p].op, procs[p].sid,
                      [NoResult EXCEPT !.error = ErrorOf(OtherMessage)])]
  /\ heap' = Collect(heap, store, procs')
  /\ UNCHANGED <<store, hist>>

\* The Analyzer's call returns: the analysis is merged into a copy of the
\* state read at the start, and the copy is stored.
AnalyzerReturns(p, reply) ==
  /\ procs[p].pc = "analyzer"
  /\ LET sid == procs[p].sid
         stage == AnalyzerStage(procs[p].text, reply)
         r == Alloc(heap)
         updatedState == updateAnalytics(heap[procs[p].state], hist[sid], stage.val)
     IN IF stage.threw THEN Fails(p)
        ELSE /\ store' = Put(store, sid, r)
             /\ procs' = [procs EXCEPT ![p].pc = "orchestrator", ![p].state = 0,
                                       ![p].text = NoText, ![p].upd = r,
                                       ![p].analysis = stage.val]
             /\ heap' = Collect(Put(heap, r, updatedState), store', procs')
             /\ hist' = hist
  /\ UNCHANGED now

\* Faulty variant: the ending turn reports one question more.
EndResult_OneMore(state) ==
  [NoResult EXCEPT !.message = ThankYou, !.shouldEnd = TRUE, !.phase = "ended",
                   !.questionCount = state.questionCount + 1]

\* The result of a turn that ends the interview.
EndResult(state) ==
  [NoResult EXCEPT !.message = ThankYou, !.shouldEnd = TRUE, !.phase = "ended",
                   !.questionCount = state.questionCount]

\* The Decision Engine's call returns: either the interview ends here, or
\* the Question Generator is called.
OrchestratorReturns(p, reply) ==
  /\ procs[p].pc = "orchestrator"
  /\ LET sid == procs[p].sid
         u == procs[p].upd
         stage == OrchestratorStage(heap[u].questionCount, procs[p].analysis, reply)
         decision == stage.val
     IN IF stage.threw THEN Fails(p)
        ELSE IF EndsInterview(decision)
          THEN /\ hist' = hist
               /\ store' = Put(store, sid, u)
               /\ procs' = [procs EXCEPT ![p] =
                              [Done("submit", sid, EndResult(heap[u]))
                                 EXCEPT !.decision = decision,
                                        !.how = DecisionSource(reply)]]
               /\ heap' = Collect([heap EXCEPT ![u].status = "ended", ![u].endTime = now],
                                  store', procs')
          ELSE /\ hist' = hist
               /\ store' = store
               /\ procs' = [procs EXCEPT ![p].pc = "interviewer",
                                         ![p].analysis = NoAnalysis,
                                         ![p].decision = decision,
                                         ![p].how = DecisionSource(reply)]
               /\ heap' = Collect(heap, store', procs')
  /\ UNCHANGED now

\* The result of a turn that delivers a question.
QuestionResult(state, message) ==
  [NoResult EXCEPT !.message = message, !.shouldEnd = FALSE, !.phase = state.status,
                   !.questionCount = state.questionCount]

\* Faulty variant: delivering a question resets the interaction mode.
Delivered_ModeReset(state) ==
  [state EXCEPT !.questionCount = @ + 1, !.status = PhaseOf(state.questionCount + 1),
                !.interactionMode = "voice"]

\* Faulty variant: the question is not counted.
Delivered_NotCounted(state) ==
  [state EXCEPT !.status = PhaseOf(state.questionCount + 1)]

\* The question is pushed, counted, and the phase follows the count.
Delivered(state) ==
  [state EXCEPT !.questionCount = @ + 1, !.status = PhaseOf(state.questionCount + 1)]

\* The Question Generator's call returns.
InterviewerReturns(p, reply) ==
  /\ procs[p].pc = "interviewer"
  /\ LET sid == procs[p].sid
         u == procs[p].upd
         stage == InterviewerStage(heap[u], procs[p].decision, reply)
         message == stage.val
         after == Delivered(heap[u])
     IN IF stage.threw THEN Fails(p)
        ELSE /\ hist' = [hist EXCEPT ![sid] = Append(@, Message("question", "agent", message))]
             /\ store' = Put(store, sid, u)
             /\ procs' = [procs EXCEPT ![p] =
                            [Done("submit", sid, QuestionResult(after, message))
                               EXCEPT !.how = procs[p].how]]
             /\ heap' = Collect([heap EXCEPT ![u] = after], store', procs')
  /\ UNCHANGED now

\* Faulty variant: the history is tested for being empty, not for having no answer.
NoResponses_EmptyHistory(h) == Len(h) = 0

\* generateFeedback's test that the candidate has answered nothing.
NoResponses(h) == UserCount(h) = 0

\* generateFeedback up to its await: the two refusals, then
\* generateInterviewFeedback marks the session ended if it is not yet.
BeginEvaluation(p, sid) ==
  /\ Takes(p)
  /\ IF sid \notin DOMAIN store
       THEN /\ procs' = [procs EXCEPT ![p] =
                           Done("eval", sid, [NoResult EXCEPT !.error = "SessionNotFound"])]
            /\ heap' = Collect(heap, store, procs')
     ELSE IF NoResponses(hist[sid])
       THEN /\ procs' = [procs EXCEPT ![p] =
                           Done("eval", sid, [NoResult EXCEPT !.error = "NoResponses"])]
            /\ heap' = Collect(heap, store, procs')
     ELSE /\ procs' = [procs EXCEPT ![p] =
                         [Idle EXCEPT !.op = "eval", !.sid = sid, !.pc = "feedback",
                                      !.state = store[sid]]]
          /\ heap' = Collect(IF heap[store[sid]].status # "ended"
                               THEN [heap EXCEPT ![store[sid]].status = "ended",
                                                 ![store[sid]].endTime = now]
                               ELSE heap,
                             store, procs')
  /\ UNCHANGED <<store, hist, now>>

\* The Evaluation Generator's call returns; the controller then deletes the
\* session and answers.
FeedbackReturns(p, reply) ==
  /\ procs[p].pc = "feedback"
  /\ LET sid == procs[p].sid
         got == runFeedbackAgent(heap[procs[p].state], reply)
         feedback == got.val
     IN IF got.threw THEN Fails(p)
        ELSE /\ store' = Drop(store, sid)
             /\ procs' = [procs EXCEPT ![p] =
                            [Done("eval", sid,
                                  [NoResult EXCEPT !.evaluation = TRUE,
                                     !.questionCount = heap[procs[p].state].questionCount,
                                     !.overallScore = feedback.overallScore,
                                     !.scores = feedback.scores,
                                     !.recommendation = feedback.recommendation])
                               EXCEPT !.how = IF FeedbackTry(reply).threw
                                                THEN "fallback" ELSE "llm"]]
             /\ heap' = Collect(heap, store', procs')
             /\ hist' = hist
  /\ UNCHANGED now

\* Time passes.
Tick ==
  /\ now < MaxClock
  /\ now' = now + 1
  /\ UNCHANGED <<store, heap, hist, procs>>

Init ==
  /\ store = << >>
  /\ heap = << >>
  /\ hist = << >>
  /\ procs = [p \in Procs |-> Idle]
  /\ now = 1

\* Whether a request on sid has to wait: requests are processed one at a time
\* ("serial"), one at a time per session ("session"), or as they arrive.
Blocked(order, sid) ==
  IF order = "serial" THEN InFlight
  ELSE IF order = "session"
    THEN \E p \in Procs : ~Free(p) /\ procs[p].sid = sid
  ELSE FALSE

\* One step of the server: a request arrives, or a model call of a request
\* in flight returns.
Step(order, sids, cap, texts, analyzer, orchestrator, interviewer, feedback) ==
  \/ \E p \in Procs, sid \in sids, role \in Roles, k \in 0..2 :
       /\ ~Blocked(order, sid)
       /\ StartSession(p, sid, role, k)
  \/ \E p \in Procs, sid \in sids, text \in texts :
       /\ ~Blocked(order, sid)
       /\ sid \in DOMAIN hist => Len(hist[sid]) < cap
       /\ BeginSubmit(p, sid, text)
  \/ \E p \in Procs, reply \in analyzer : AnalyzerReturns(p, reply)
  \/ \E p \in Procs, reply \in orchestrator : OrchestratorReturns(p, reply)
  \/ \E p \in Procs, reply \in interviewer : InterviewerReturns(p, reply)
  \/ \E p \in Procs, sid \in sids :
       /\ ~Blocked(order, sid)
       /\ EndSession(p, sid)
  \/ \E p \in Procs, sid \in sids :
       /\ ~Blocked(order, sid)
       /\ BeginEvaluation(p, sid)
  \/ \E p \in Procs, reply \in feedback : FeedbackReturns(p, reply)
  \/ Tick

\* Requests one at a time, every reply of every stage.
Next ==
  Step("serial", {"s1"}, MaxHist, AnswerTexts, AnalyzerReplies, OrchestratorReplies,
       InterviewerReplies, FeedbackReplies)

Spec == Init /\ [][Next]_vars

\* Long interviews: requests one at a time, one answer text, the Decision
\* Engine failing or deciding to continue, the other stages failing.
NextLong ==
  Step("serial", {"s1"}, MaxHistLong, {ShortAnswer}, {FailReply(NoAnalysis)},
       {FailReply(NoDecision), NullReply(NoDecision), JsonReply(ContinueDecision)},
       {FailReply(NoText)}, {FailReply(Feedback(NoScore, << >>, Undef))})

SpecLong == Init /\ [][NextLong]_vars

\* Long interviews with the model service failing on every call.
NextFail ==
  Step("serial", {"s1"}, MaxHistLong, {ShortAnswer}, {FailReply(NoAnalysis)},
       {FailReply(NoDecision)}, {FailReply(NoText)},
       {FailReply(Feedback(NoScore, << >>, Undef))})

SpecFail == Init /\ [][NextFail]_vars

\* The Question Generator failing after a decision with any intent.
NextAsk ==
  Step("serial", {"s1"}, MaxHistAsk, {ShortAnswer}, {FailReply(NoAnalysis)},
       {JsonReply(d) : d \in IntentDecisions}, {FailReply(NoText)},
       {FailReply(Feedback(NoScore, << >>, Undef))})

SpecAsk == Init /\ [][NextAsk]_vars

\* The Analyzer's model scoring the answers, every other call failing.
NextScores ==
  Step("serial", {"s1"}, MaxHist, {ShortAnswer}, {JsonReply(a) : a \in ScoreAnalyses},
       {FailReply(NoDecision)}, {FailReply(NoText)},
       {FailReply(Feedback(NoScore, << >>, Undef))})

SpecScores == Init /\ [][NextScores]_vars

\* Turns one at a time on answers of two lengths, analysed by the model or by
\* the fallback, each turn continuing or ending the interview.
NextTurns ==
  Step("serial", {"s1"}, MaxHistTurns, AnswerTexts,
       {FailReply(NoAnalysis),
        JsonReply(Analysis(JsFalse, JsTrue, JsTrue, 3, "llm: off topic"))},
       {FailReply(NoDecision), JsonReply(EndDecision)}, {FailReply(NoText)},
       {FailReply(Feedback(NoScore, << >>, Undef))})

SpecTurns == Init /\ [][NextTurns]_vars

\* The Decision Engine's model replying with any nextAgent and shouldEnd,
\* every other call failing.
NextRoute ==
  Step("serial", {"s1"}, MaxHist, {ShortAnswer}, {FailReply(NoAnalysis)},
       {JsonReply(d) : d \in RouteDecisions}, {FailReply(NoText)},
       {FailReply(Feedback(NoScore, << >>, Undef))})

SpecRoute == Init /\ [][NextRoute]_vars

\* Concurrent requests on one session: any request may arrive while another
\* waits on a model call.
NextConc ==
  Step("any", {"s1"}, MaxHistConc, {ShortAnswer}, {FailReply(NoAnalysis)},
       {FailReply(NoDecision), JsonReply(ContinueDecision), JsonReply(NoDecision)},
       {FailReply(NoText), JsonReply(LlmQuestion)},
       {FailReply(Feedback(NoScore, << >>, Undef))})

SpecConc == Init /\ [][NextConc]_vars

\* Two sessions, requests on different sessions overlapping, every model
\* call failing.
NextTwo ==
  Step("session", SessionIds, MaxHistTwo, {ShortAnswer}, {FailReply(NoAnalysis)},
       {FailReply(NoDecision)},
       {FailReply(NoText)}, {FailReply(Feedback(NoScore, << >>, Undef))})

SpecTwo == Init /\ [][NextTwo]_vars

\* The model service never answers the call a request waits on: model.invoke
\* is awaited with no timeout, so the request waits from then on.
Hangs(p) ==
  /\ procs[p].pc \in {"analyzer", "orchestrator", "interviewer", "feedback"}
  /\ procs' = [procs EXCEPT ![p].pc = "hung"]
  /\ UNCHANGED <<store, heap, hist, now>>

\* Requests one at a time, every call failing, the Decision Engine's
\* possibly continuing, and calls that are never answered.
NextHang ==
  \/ Step("serial", {"s1"}, MaxHist, {ShortAnswer}, {FailReply(NoAnalysis)},
          {FailReply(NoDecision), JsonReply(ContinueDecision)},
          {FailReply(NoText)}, {FailReply(Feedback(NoScore, << >>, Undef))})
  \/ \E p \in Procs : Hangs(p)

\* The call request p waits on is answered and the request resumes.
Answered(p) ==
  \/ AnalyzerReturns(p, FailReply(NoAnalysis))
  \/ \E reply \in {FailReply(NoDecision), JsonReply(ContinueDecision)} :
       OrchestratorReturns(p, reply)
  \/ InterviewerReturns(p, FailReply(NoText))
  \/ FeedbackReturns(p, FailReply(Feedback(NoScore, << >>, Undef)))

\* A pending call that is not left unanswered is answered, and the event
\* loop then resumes its request.
SpecHang == Init /\ [][NextHang]_vars /\ \A p \in Procs : WF_vars(Answered(p))

\* ================================================================ claims

Stored(s) == heap[store[s]]
Waiting == {"analyzer", "orchestrator", "interviewer"}
SubmitDone(p) == procs[p].op = "submit" /\ procs[p].pc = "done"
EvalDone(p) == procs[p].op = "eval" /\ procs[p].pc = "done"

C2_CountMatchesHistory ==
  ~InFlight =>
    \A s \in DOMAIN store : Stored(s).questionCount = AgentCount(hist[s])

\* C3: no step takes a stored session out of the ended phase, raises its
\* questionCount or appends a question to its history.
C3_EndedIsTerminal ==
  [][\A s \in SessionIds :
       (s \in DOMAIN store /\ s \in DOMAIN store' /\ heap[store[s]].status = "ended")
         => /\ heap'[store'[s]].status = "ended"
            /\ heap'[store'[s]].questionCount = heap[store[s]].questionCount
            /\ AgentCount(hist'[s]) = AgentCount(hist[s])]_vars

\* C4: with requests processed one at a time, a session enters the Store
\* with questionCount 1, every step changes the stored questionCount by the
\* number of questions it appends to the history (submitAnswer appends one
\* when it delivers a question), and between requests questionCount equals
\* the number of agent-authored entries of the history.
C4_CountsDeliveredQuestions ==
  [][\A s \in SessionIds :
       /\ (s \notin DOMAIN store /\ s \in DOMAIN store')
            => heap'[store'[s]].questionCount = 1
       /\ (s \in DOMAIN store /\ s \in DOMAIN store')
            => /\ heap'[store'[s]].questionCount - heap[store[s]].questionCount
                    = AgentCount(hist'[s]) - AgentCount(hist[s])
               /\ AgentCount(hist'[s]) - AgentCount(hist[s]) \in {0, 1}
       /\ (s \in DOMAIN store' /\ ~InFlight')
            => heap'[store'[s]].questionCount = AgentCount(hist'[s])]_vars

\* A turn has delivered the ninth question.
C4_Witness ==
  \E p \in Procs :
    /\ SubmitDone(p) /\ ~procs[p].res.shouldEnd /\ procs[p].res.questionCount = 9
    /\ procs[p].sid \in DOMAIN store
    /\ AgentCount(hist[procs[p].sid]) = 9

C6_EndTimeSetOnce ==
  [][\A s \in SessionIds :
       (s \in DOMAIN store /\ s \in DOMAIN store')
         => /\ heap[store[s]].endTime # 0
                 => heap'[store'[s]].endTime = heap[store[s]].endTime
            /\ (heap'[store'[s]].endTime # 0) = (heap'[store'[s]].status = "ended")]_vars

\* C7: while a submitAnswer is waiting on a stage, the session held in the
\* Store (its state and its history) is the one from before the turn: no
\* step that leaves the turn waiting changes it.
C7_TurnIsAtomic ==
  [][\A s \in SessionIds :
       (/\ s \in DOMAIN store
        /\ \E p \in Procs : /\ procs'[p].op = "submit" /\ procs'[p].sid = s
                            /\ procs'[p].pc \in Waiting)
         => /\ s \in DOMAIN store'
            /\ heap'[store'[s]] = heap[store[s]]
            /\ hist'[s] = hist[s]]_vars

\* C8: generateEvaluation answers NoResponses, with no evaluation, exactly
\* for a stored session without candidate answers, and answers with an
\* evaluation for a stored session with one, whatever the model replied.
C8_EvaluationOrNoResponses ==
  \A p \in Procs :
    /\ EvalDone(p) =>
         LET r == procs[p].res
             answers == IF procs[p].sid \in DOMAIN hist
                          THEN UserCount(hist[procs[p].sid]) ELSE 0
         IN /\ r.error \in {"none", "NoResponses", "SessionNotFound"}
            /\ r.error = "NoResponses" => answers = 0 /\ ~r.evaluation
            /\ r.error = "none" => answers >= 1 /\ r.evaluation
            /\ r.error = "SessionNotFound" => procs[p].sid \notin DOMAIN store
            /\ r.evaluation => r.recommendation # ""
    /\ procs[p].pc = "feedback" => UserCount(hist[procs[p].sid]) >= 1

\* An evaluation returned although the model call failed.
C8_Witness ==
  \E p \in Procs :
    EvalDone(p) /\ procs[p].res.evaluation /\ procs[p].how = "fallback"

\* C9: a session for which generateEvaluation has returned an evaluation is
\* not in the Store.
C9_EvaluatedSessionIsGone ==
  \A p \in Procs :
    EvalDone(p) /\ procs[p].res.evaluation => procs[p].sid \notin DOMAIN store

\* C10: submitAnswer ends with a result or with SessionNotFound, the latter
\* only for an id that is not stored, whatever the three stages replied.
C10_StagesNeverFail ==
  \A p \in Procs :
    SubmitDone(p) =>
      /\ procs[p].res.error \in {"none", "SessionNotFound"}
      /\ procs[p].res.error = "SessionNotFound" => procs[p].sid \notin DOMAIN store
      /\ procs[p].res.error = "none" => procs[p].res.phase # "none"

\* A turn that returned the fixed question after a decision with no
\* metadata made the Question Generator throw.
C10_Witness ==
  \E p \in Procs :
    /\ SubmitDone(p) /\ procs[p].res.error = "none"
    /\ procs[p].how = "llm" /\ procs[p].res.message = TellMeMore

\* C11: every result of a submitAnswer turn carries a non-empty message, and
\* so does every question entered in a history.
C11_MessageNonEmpty ==
  /\ \A p \in Procs :
       SubmitDone(p) /\ procs[p].res.error = "none" => procs[p].res.message.chars > 0
  /\ \A s \in DOMAIN hist : \A i \in 1..Len(hist[s]) : hist[s][i].content.chars > 0

\* C12: a submitAnswer turn that waits on a stage eventually returns, also
\* when the stage's model call is never answered.
C12_TurnCompletes ==
  \A p \in Procs :
    (procs[p].op = "submit" /\ procs[p].pc \in Waiting) ~> (procs[p].pc = "done")

\* C13: on a turn whose analysis says the answer is off topic, at a
\* questionCount below 8, the decision taken is to continue with the
\* Question Generator, intent continue_conversation and a focus hint, and the
\* turn does not end the interview.
C13_OffTopicNeverEnds ==
  \A p \in Procs :
    /\ (/\ procs[p].op = "submit" /\ procs[p].pc = "interviewer"
        /\ Truthy(heap[procs[p].upd].analytics.isOffTopic)
        /\ heap[procs[p].upd].questionCount < 8)
         => /\ procs[p].decision.nextAgent = "interviewer"
            /\ procs[p].decision.nextIntent = "continue_conversation"
            /\ procs[p].decision.shouldEnd = JsFalse
            /\ Len(procs[p].decision.metadata.focusAreas) > 0
    /\ (/\ SubmitDone(p) /\ procs[p].res.error = "none"
        /\ procs[p].sid \in DOMAIN store
        /\ Truthy(Stored(procs[p].sid).analytics.isOffTopic)
        /\ procs[p].res.questionCount < 8)
         => ~procs[p].res.shouldEnd

\* C14: every step leaves the entries of a history in place and only appends
\* to it, and between requests processed one at a time a history starts with
\* an agent's entry and no two consecutive entries have the same sender.
C14_HistoryAlternates ==
  [][\A s \in SessionIds :
       /\ s \in DOMAIN hist
            => /\ s \in DOMAIN hist'
               /\ Len(hist'[s]) >= Len(hist[s])
               /\ SubSeq(hist'[s], 1, Len(hist[s])) = hist[s]
       /\ (s \in DOMAIN hist' /\ ~InFlight')
            => /\ hist'[s][1].from = "agent"
               /\ \A i \in 1..(Len(hist'[s]) - 1) :
                    hist'[s][i].from # hist'[s][i + 1].from]_vars

\* C15: a submitAnswer that arrives for an id that is not in the Store ends at
\* once with SessionNotFound, waits on no stage, and leaves the Store, every
\* stored state and every history as they were.
C15_UnknownIdRefused ==
  [][\A p \in Procs :
       (/\ Free(p) /\ procs'[p] # procs[p]
        /\ procs'[p].op = "submit" /\ procs'[p].sid \notin DOMAIN store)
         => /\ procs'[p].pc = "done"
            /\ procs'[p].res.error = "SessionNotFound"
            /\ store' = store /\ heap' = heap /\ hist' = hist]_vars

\* A submitAnswer refused for an id that is not stored while another session
\* is.
C15_Witness ==
  \E p \in Procs :
    /\ SubmitDone(p) /\ procs[p].res.error = "SessionNotFound"
    /\ procs[p].sid \notin DOMAIN store
    /\ \E s \in DOMAIN store : s # procs[p].sid /\ Len(hist[s]) > 1

\* C16: an endSession that arrives for an id that is not in the Store is
\* answered with the error SessionNotFound and leaves the Store as it was.
C16_UnknownIdIsAnError ==
  [][\A p \in Procs :
       (/\ Free(p) /\ procs'[p] # procs[p]
        /\ procs'[p].op = "end" /\ procs'[p].sid \notin DOMAIN store)
         => /\ procs'[p].res.error = "SessionNotFound"
            /\ store' = store /\ heap' = heap /\ hist' = hist]_vars

\* C17: an endSession that arrives for a stored session is answered at once,
\* waiting on no stage; the stored state becomes the same state with phase
\* ended and endTime the current time, and the Store, the history and every
\* other object are left as they were.
C17_EndSessionFrame ==
  [][\A p \in Procs :
       (/\ Free(p) /\ procs'[p] # procs[p]
        /\ procs'[p].op = "end" /\ procs'[p].sid \in DOMAIN store)
         => LET r == store[procs'[p].sid]
            IN /\ procs'[p].pc = "done" /\ procs'[p].res.error = "none"
               /\ store' = store /\ hist' = hist
               /\ heap'[r] = [heap[r] EXCEPT !.status = "ended", !.endTime = now]
               /\ heap'[r].endTime # 0
               /\ \A q \in DOMAIN heap' \ {r} : heap'[q] = heap[q]]_vars

\* An endSession answered for a session that has an answer and a second
\* question, while a turn on it is waiting.
C17_Witness ==
  \E p \in Procs :
    /\ procs[p].op = "end" /\ procs[p].pc = "done"
    /\ procs[p].sid \in DOMAIN store
    /\ Stored(procs[p].sid).status = "ended"
    /\ Stored(procs[p].sid).questionCount = 2
    /\ Len(Stored(procs[p].sid).analytics.notes) > 0
    /\ \E q \in Procs : procs[q].op = "submit" /\ procs[q].pc \in Waiting

\* C18: the step that starts a session stores a state with phase opening,
\* questionCount 1, no endTime, analytics with both flags false, no notes and
\* avgAnswerLength 0, and a history of exactly one agent-authored question,
\* the non-empty opening message it returns; and no step leaves a stored
\* state with a questionCount below 1.
C18_StartSessionState ==
  [][\A s \in SessionIds :
       /\ (s \notin DOMAIN hist /\ s \in DOMAIN hist')
            => /\ s \in DOMAIN store'
               /\ heap'[store'[s]].status = "opening"
               /\ heap'[store'[s]].questionCount = 1
               /\ heap'[store'[s]].endTime = 0
               /\ heap'[store'[s]].startTime = now
               /\ heap'[store'[s]].analytics.isChatty = JsFalse
               /\ heap'[store'[s]].analytics.isTooShort = JsFalse
               /\ heap'[store'[s]].analytics.notes = << >>
               /\ heap'[store'[s]].analytics.avgAnswerLength = <<0, 1>>
               /\ Len(hist'[s]) = 1
               /\ hist'[s][1].from = "agent" /\ hist'[s][1].type = "question"
               /\ hist'[s][1].content.chars > 0
               /\ \E p \in Procs :
                    /\ procs'[p].op = "start" /\ procs'[p].sid = s
                    /\ procs'[p].pc = "done" /\ procs'[p].res.error = "none"
                    /\ procs'[p].res.message = hist'[s][1].content
                    /\ procs'[p].res.phase = "opening"
       /\ s \in DOMAIN store' => heap'[store'[s]].questionCount >= 1]_vars

\* A session just started, after the clock has advanced.
C18_Witness ==
  \E p \in Procs :
    /\ procs[p].op = "start" /\ procs[p].pc = "done"
    /\ procs[p].sid \in DOMAIN store
    /\ Stored(procs[p].sid).questionCount = 1
    /\ hist[procs[p].sid] = << Message("question", "agent", procs[p].res.message) >>
    /\ Stored(procs[p].sid).startTime > 1

\* C19: every step acts for the requests of one session id only and leaves
\* every other session as it was: whether it is stored, its stored state and
\* its history; no two sessions share a state object; and a turn that
\* returns reports the questionCount and phase of its own session.
C19_SessionsIndependent ==
  [][/\ \E s \in SessionIds :
          /\ \A p \in Procs : procs'[p] # procs[p] => procs'[p].sid = s
          /\ \A t \in SessionIds \ {s} :
               /\ (t \in DOMAIN store) = (t \in DOMAIN store')
               /\ t \in DOMAIN store => heap'[store'[t]] = heap[store[t]]
               /\ (t \in DOMAIN hist) = (t \in DOMAIN hist')
               /\ t \in DOMAIN hist => hist'[t] = hist[t]
     /\ \A s, t \in DOMAIN store' : s # t => store'[s] # store'[t]
     /\ \A p \in Procs :
          (/\ procs'[p] # procs[p] /\ procs'[p].op = "submit"
           /\ procs'[p].pc = "done" /\ procs'[p].res.error = "none")
            => /\ procs'[p].res.questionCount
                    = heap'[store'[procs'[p].sid]].questionCount
               /\ procs'[p].res.phase = heap'[store'[procs'[p].sid]].status]_vars

\* A turn on one session has returned a question while a turn on the other
\* session waits on a stage.
C19_Witness ==
  \E p, q \in Procs :
    /\ SubmitDone(p) /\ procs[p].res.error = "none" /\ procs[p].res.questionCount = 2
    /\ procs[q].op = "submit" /\ procs[q].pc \in Waiting
    /\ procs[q].sid # procs[p].sid
    /\ {procs[p].sid, procs[q].sid} \subseteq DOMAIN store

\* C20: with every model call failing and requests one at a time, the k-th
\* submitAnswer of a session returns shouldEnd = false, a non-empty question
\* and questionCount k + 1 for k = 1..7, and shouldEnd = true, questionCount 8
\* and phase ended from k = 8 on; and every evaluation returned carries a
\* recommendation among STRONG_HIRE, HIRE, MAYBE and NO_HIRE.
C20_EightQuestionsThenEnd ==
  \A p \in Procs :
    /\ (SubmitDone(p) /\ procs[p].res.error = "none")
         => LET k == UserCount(hist[procs[p].sid])
                r == procs[p].res
            IN /\ k >= 1
               /\ k <= 7 => /\ ~r.shouldEnd /\ r.questionCount = k + 1
                             /\ r.message.chars > 0 /\ r.phase # "ended"
               /\ k >= 8 => r.shouldEnd /\ r.questionCount = 8 /\ r.phase = "ended"
    /\ SubmitDone(p) => procs[p].res.error \in {"none", "SessionNotFound"}
    /\ EvalDone(p) /\ procs[p].res.error = "none"
         => /\ procs[p].res.evaluation
            /\ procs[p].res.recommendation \in {"STRONG_HIRE", "HIRE", "MAYBE", "NO_HIRE"}

\* The evaluation returned after eight answers and eight questions.
C20_Witness ==
  \E p \in Procs :
    /\ EvalDone(p) /\ procs[p].res.evaluation
    /\ UserCount(hist[procs[p].sid]) = 8 /\ AgentCount(hist[procs[p].sid]) = 8
    /\ procs[p].res.questionCount = 8

\* C21: every evaluation generateEvaluation returns, computed by the model or
\* by the fallback, carries the recommendation of its overallScore:
\* STRONG_HIRE from 8, HIRE from 6, MAYBE from 4, NO_HIRE below.
C21_RecommendationMatchesScore ==
  \A p \in Procs :
    EvalDone(p) /\ procs[p].res.evaluation
      => procs[p].res.recommendation = RecommendationOf(procs[p].res.overallScore)

\* The analysis is the one merged last into the analytics of state.
Merged(state, analysis) ==
  /\ Len(state.analytics.notes) > 0
  /\ state.analytics.notes[Len(state.analytics.notes)] = analysis.notes
  /\ state.analytics.isChatty = analysis.isChatty
  /\ state.analytics.isTooShort = analysis.isTooShort
  /\ state.analytics.isOffTopic = analysis.isOffTopic
  /\ state.analytics.technicalScore = analysis.technicalScore

\* C22: a turn waits on one stage at a time and on each at most once, in
\* order: on the Analyzer from the step that appends the answer to the
\* history, on the Decision Engine from the step that stores the state with
\* that answer's analysis merged, on the Question Generator only from the
\* Decision Engine's step and only for a decision that does not end the
\* interview; from the Question Generator the turn can only return.
C22_StagesInOrder ==
  [][\A p \in Procs :
       LET a == procs[p]
           b == procs'[p]
       IN a # b =>
            /\ b.pc = "analyzer"
                 => /\ Free(p) /\ b.op = "submit"
                    /\ hist'[b.sid] = Append(hist[b.sid], Message("answer", "user", b.text))
            /\ b.pc = "orchestrator"
                 => /\ a.pc = "analyzer" /\ b.sid = a.sid
                    /\ store'[b.sid] = b.upd
                    /\ Merged(heap'[b.upd], b.analysis)
                    /\ hist'[b.sid] = hist[b.sid]
            /\ b.pc = "interviewer"
                 => /\ a.pc = "orchestrator" /\ b.sid = a.sid /\ b.upd = a.upd
                    /\ ~EndsInterview(b.decision)
                    /\ hist'[b.sid] = hist[b.sid]
            /\ a.pc = "analyzer" => b.pc = "orchestrator"
            /\ a.pc = "orchestrator"
                 => \/ b.pc = "interviewer"
                    \/ b.pc = "done" /\ b.res.shouldEnd /\ hist'[b.sid] = hist[b.sid]
            /\ a.pc = "interviewer"
                 => /\ b.pc = "done" /\ ~b.res.shouldEnd
                    /\ Len(hist'[b.sid]) = Len(hist[b.sid]) + 1]_vars

\* A turn that went through the three stages, each answered by the model.
C22_Witness ==
  \E p \in Procs :
    /\ SubmitDone(p) /\ procs[p].how = "llm" /\ ~procs[p].res.shouldEnd
    /\ procs[p].res.message = LlmQuestion
    /\ procs[p].sid \in DOMAIN store
    /\ Len(Stored(procs[p].sid).analytics.notes) = 1
    /\ Stored(procs[p].sid).analytics.notes[1] = "llm: solid answer"

\* C23: a decision taken without the model (the Decision Engine's call
\* failed, or the coordinator's default replaced a Decision Engine that
\* threw) at a questionCount below 8 on an answer that is not off topic sends
\* the turn to the Question Generator with shouldEnd false and an intent that
\* follows the count: ask_behavioral and easy up to 2, ask_role_specific or
\* ask_technical from 3 to 5, hard if the technical score exceeds 7 and medium
\* otherwise, ask_closing at 6 and 7.
C23_FallbackRules ==
  \A p \in Procs :
    (/\ procs[p].pc = "interviewer" /\ procs[p].how \in {"fallback", "default"}
     /\ ~Truthy(heap[procs[p].upd].analytics.isOffTopic)
     /\ heap[procs[p].upd].questionCount < 8)
      => LET d == procs[p].decision
             q == heap[procs[p].upd].questionCount
             tech == heap[procs[p].upd].analytics.technicalScore
         IN /\ d.nextAgent = "interviewer" /\ d.shouldEnd = JsFalse
            /\ q <= 2 => d.nextIntent = "ask_behavioral" /\ d.metadata.difficulty = "easy"
            /\ q \in 3..5
                 => /\ d.nextIntent \in {"ask_role_specific", "ask_technical"}
                    /\ d.metadata.difficulty
                         = IF ScoreAbove(tech, 7) THEN "hard" ELSE "medium"
            /\ q \in 6..7 => d.nextIntent = "ask_closing"

\* The members of a sequence.
Range(seq) == {seq[i] : i \in 1..Len(seq)}

\* Some score of the analytics is present and below n.
AnyScoreBelow(a, n) ==
  \/ ScoreBelow(a.communicationScore, n) \/ ScoreBelow(a.technicalScore, n)
  \/ ScoreBelow(a.behavioralScore, n) \/ ScoreBelow(a.confidenceScore, n)
  \/ ScoreBelow(a.engagementScore, n)

\* C24: every decision that sends the turn to the Question Generator carries
\* the adaptations of the answer's analysis: the focus area asking for
\* elaboration if the answer is too short, the focus area asking for a focused
\* question if it is chatty, and provideHint true if a score is below 4.
C24_OverlayApplied ==
  \A p \in Procs :
    procs[p].pc = "interviewer" =>
      LET a == heap[procs[p].upd].analytics
          m == procs[p].decision.metadata
      IN /\ Truthy(a.isTooShort)
              => "Ask open-ended questions requiring elaboration" \in Range(m.focusAreas)
         /\ Truthy(a.isChatty)
              => "Ask focused, specific questions" \in Range(m.focusAreas)
         /\ AnyScoreBelow(a, 4) => m.provideHint = JsTrue

\* C25: with the Analyzer's model call failing, the analysis a turn goes on
\* with has isTooShort true exactly for an answer of fewer than 50 words,
\* isChatty true exactly for one of more than 250 words, isOffTopic false and
\* the five scores equal to 5.
C25_NeutralFallbackAnalysis ==
  \A p \in Procs :
    procs[p].pc = "orchestrator" =>
      LET h == hist[procs[p].sid]
          answer == h[Len(h)].content
          a == procs[p].analysis
      IN /\ a.isTooShort = ToJsBool(answer.words < 50)
         /\ a.isChatty = ToJsBool(answer.words > 250)
         /\ a.isOffTopic = JsFalse
         /\ a.communicationScore = 5 /\ a.technicalScore = 5
         /\ a.behavioralScore = 5 /\ a.confidenceScore = 5
         /\ a.engagementScore = 5

\* C26: with the Question Generator's model call failing, the question a turn
\* delivers is non-empty and is fixed by the decision's intent and the
\* questionCount alone, whatever else the state holds: it is the entry at
\* index questionCount mod table size of the intent's table (the behavioral
\* table for an intent that has none of its own).
C26_FallbackQuestionFixed ==
  [][\A p \in Procs :
       (procs[p].pc = "interviewer" /\ procs'[p].pc = "done")
         => LET intent == procs[p].decision.nextIntent
                count == heap[procs[p].upd].questionCount
                table == FallbackQuestions(
                           IF intent \in {"ask_technical", "ask_role_specific", "ask_closing"}
                             THEN intent ELSE "ask_behavioral",
                           heap[procs[p].upd].role)
                text == procs'[p].res.message
            IN /\ procs'[p].res.error = "none"
               /\ text.chars > 0
               /\ text = table[(count % Len(table)) + 1]
               /\ hist'[procs[p].sid][Len(hist'[procs[p].sid])].content = text]_vars

\* The fourth question, with the index wrapped around a table of three.
C26_Witness ==
  \E p \in Procs :
    /\ SubmitDone(p) /\ procs[p].res.questionCount = 4
    /\ procs[p].res.message = FallbackQuestions("ask_technical", "backend")[1]
    /\ Stored(procs[p].sid).startTime = 2

\* The five scores of the analytics, all present and from 0 to 10.
ScoresOf(a) ==
  << a.communicationScore, a.technicalScore, a.behavioralScore, a.confidenceScore,
     a.engagementScore >>

\* C27: an evaluation computed by the fallback for a session whose analytics
\* hold five scores from 0 to 10 (0 included) has as overallScore their mean
\* rounded to the nearest integer and reports those five scores.
C27_FallbackScoreIsMean ==
  [][\A p \in Procs :
       (/\ procs[p].pc = "feedback" /\ procs'[p].pc = "done"
        /\ procs'[p].how = "fallback"
        /\ \A i \in 1..5 : ScoresOf(heap[procs[p].state].analytics)[i] \in 0..10)
         => LET sc == ScoresOf(heap[procs[p].state].analytics)
            IN /\ procs'[p].res.scores = sc
               /\ procs'[p].res.overallScore
                    = RoundFifth(sc[1] + sc[2] + sc[3] + sc[4] + sc[5])]_vars

RECURSIVE SumAnswerLengths(_)
\* The sum of the lengths of the candidate's answers in a history.
SumAnswerLengths(h) ==
  IF Len(h) = 0 THEN 0
  ELSE SumAnswerLengths(SubSeq(h, 1, Len(h) - 1))
         + (IF h[Len(h)].from = "user" THEN h[Len(h)].content.chars ELSE 0)

\* C28: between turns processed one at a time, the avgAnswerLength of a
\* stored session with n candidate answers in its history, times n, is the
\* sum of the lengths of those answers (0 before the first answer), whether
\* the turns delivered a question or ended the interview.
C28_AvgIsTrueMean ==
  ~InFlight =>
    \A s \in DOMAIN store :
      LET avg == Stored(s).analytics.avgAnswerLength
      IN /\ avg[2] > 0
         /\ UserCount(hist[s]) * avg[1] = SumAnswerLengths(hist[s]) * avg[2]

\* Three answers of two lengths, the mean not a whole number, after a turn
\* that delivered a question and turns that ended the interview.
C28_Witness ==
  /\ ~InFlight
  /\ \E s \in DOMAIN store :
       /\ UserCount(hist[s]) = 3 /\ AgentCount(hist[s]) = 2
       /\ Stored(s).analytics.avgAnswerLength[2] = 3
       /\ Stored(s).status = "ended"

\* C29: with turns processed one at a time, the step on which a turn's
\* analysis arrives stores analytics whose three flags and five scores are
\* those of that analysis, the analysis of the answer entered last in the
\* history, and whose notes are the notes held before with that analysis's
\* note appended; no other step changes the analytics of a stored session;
\* and between turns notes holds one entry for each candidate answer of the
\* history.
C29_AnalyticsOfLastAnswer ==
  [][\A s \in SessionIds :
       (s \in DOMAIN store /\ s \in DOMAIN store') =>
         LET old == heap[store[s]].analytics
             new == heap'[store'[s]].analytics
             merging == {p \in Procs : /\ procs[p].sid = s /\ procs[p].pc = "analyzer"
                                      /\ procs'[p].pc # "analyzer"}
         IN /\ merging = {} => new = old
            /\ \A p \in merging :
                 LET a == procs'[p].analysis
                     answer == hist[s][Len(hist[s])]
                 IN /\ answer.from = "user" /\ answer.content = procs[p].text
                    /\ \E reply \in AnalyzerReplies : a = AnalyzerStage(answer.content, reply).val
                    /\ new.isChatty = a.isChatty /\ new.isTooShort = a.isTooShort
                    /\ new.isOffTopic = a.isOffTopic
                    /\ ScoresOf(new) = ScoresOf(a)
                    /\ new.notes = Append(old.notes, a.notes)
            /\ ~InFlight' => Len(new.notes) = UserCount(hist'[s])]_vars

\* Two turns done: the first answer was chatty and the second too short, and
\* the flags stored are those of the second.
C29_Witness ==
  /\ ~InFlight
  /\ \E s \in DOMAIN store :
       /\ Stored(s).analytics.notes = << "fallback: verbose", "fallback: brief" >>
       /\ Stored(s).analytics.isChatty = JsFalse
       /\ Stored(s).analytics.isTooShort = JsTrue
       /\ UserCount(hist[s]) = 2

\* C30: also when submitAnswer requests on a session overlap, no step lowers
\* the questionCount of the state the Store holds for the session.
C30_CountNeverDecreases ==
  [][\A s \in SessionIds :
       (s \in DOMAIN store /\ s \in DOMAIN store')
         => heap'[store'[s]].questionCount >= heap[store[s]].questionCount]_vars

\* C31: no step changes the sessionId, role, seniority, interactionMode or
\* startTime of a session the Store holds, whichever of submitAnswer,
\* endSession and generateEvaluation it belongs to and however the requests
\* overlap; the sessionId stored under an id is that id.
C31_IdentityFieldsFrozen ==
  [][\A s \in SessionIds :
       /\ (s \in DOMAIN store /\ s \in DOMAIN store')
            => /\ heap'[store'[s]].sessionId = heap[store[s]].sessionId
               /\ heap'[store'[s]].role = heap[store[s]].role
               /\ heap'[store'[s]].seniority = heap[store[s]].seniority
               /\ heap'[store'[s]].interactionMode = heap[store[s]].interactionMode
               /\ heap'[store'[s]].startTime = heap[store[s]].startTime
       /\ s \in DOMAIN store' => heap'[store'[s]].sessionId = s]_vars

\* A session started at time 1 and ended at time 2, after a turn that
\* delivered the second question.
C31_Witness ==
  \E s \in DOMAIN store :
    /\ Stored(s).startTime = 1 /\ Stored(s).endTime = 2
    /\ Stored(s).questionCount = 2 /\ Len(Stored(s).analytics.notes) > 0
    /\ Stored(s).sessionId = s /\ Stored(s).interactionMode = "chat"

\* The decision asks for the end: shouldEnd is true or nextAgent is feedback.
SignalsEnd(decision) ==
  decision.shouldEnd = JsTrue \/ decision.nextAgent = "feedback"

\* C32: the step that takes a turn past the Decision Engine ends the
\* interview (the stored phase becomes ended, the Question Generator is not
\* called) exactly when the decision has shouldEnd = true or nextAgent =
\* feedback; on every other decision, nextAgent end or analyzer included, the
\* Question Generator is called, and its step delivers a question.
C32_EndsExactlyOnSignal ==
  [][\A p \in Procs :
       /\ (procs[p].pc = "orchestrator" /\ procs'[p].pc = "done")
            => /\ SignalsEnd(procs'[p].decision)
               /\ procs'[p].res.shouldEnd
               /\ heap'[store'[procs[p].sid]].status = "ended"
       /\ (procs[p].pc = "orchestrator" /\ procs'[p].pc = "interviewer")
            => ~SignalsEnd(procs'[p].decision)
       /\ (procs[p].pc = "interviewer" /\ procs'[p] # procs[p])
            => /\ procs'[p].pc = "done" /\ ~procs'[p].res.shouldEnd
               /\ procs'[p].res.message.chars > 0
               /\ AgentCount(hist'[procs[p].sid]) = AgentCount(hist[procs[p].sid]) + 1]_vars

\* C33: with turns one at a time, the step on which a turn ends the interview
\* returns shouldEnd = true, phase ended and the questionCount the session
\* had before the turn (the number of questions in its history); the stored
\* state is the one holding the turn's analysis, with phase ended and the
\* endTime set; the history is left as it is, its last entry being the turn's
\* answer, and notes holds one entry for each answer.
C33_EndingTurnFrame ==
  [][\A p \in Procs :
       (procs[p].pc = "orchestrator" /\ procs'[p].pc = "done")
         => LET s == procs[p].sid
                before == heap[procs[p].upd]
                after == heap'[store'[s]]
                r == procs'[p].res
            IN /\ r.error = "none" /\ r.shouldEnd /\ r.phase = "ended"
               /\ r.questionCount = before.questionCount
               /\ r.questionCount = AgentCount(hist[s])
               /\ after = [before EXCEPT !.status = "ended", !.endTime = now]
               /\ Merged(after, procs[p].analysis)
               /\ hist'[s] = hist[s]
               /\ hist[s][Len(hist[s])].from = "user"
               /\ Len(after.analytics.notes) = UserCount(hist[s])]_vars

\* A turn has ended the interview after the second question: two questions
\* and two answers in the history.
C33_Witness ==
  \E p \in Procs :
    /\ SubmitDone(p) /\ procs[p].res.shouldEnd /\ procs[p].res.questionCount = 2
    /\ AgentCount(hist[procs[p].sid]) = 2 /\ UserCount(hist[procs[p].sid]) = 2
    /\ Len(Stored(procs[p].sid).analytics.notes) = 2
    /\ Stored(procs[p].sid).status = "ended"

\* C34: the step on which generateEvaluation starts on a stored session
\* leaves the session stored with phase ended, with the endTime it had if it
\* was ended already and the current time otherwise, and with its history,
\* questionCount and analytics as they were; and for as long as the
\* Evaluation Generator runs, up to the step on which it returns, the state
\* it was given has phase ended.
C34_EvaluationOnEndedSession ==
  [][\A p \in Procs :
       /\ (Free(p) /\ procs'[p].op = "eval" /\ procs'[p].pc = "feedback")
            => LET s == procs'[p].sid
                   old == heap[store[s]]
                   new == heap'[procs'[p].state]
               IN /\ store' = store /\ procs'[p].state = store[s]
                  /\ new.status = "ended"
                  /\ new.endTime = IF old.status = "ended" THEN old.endTime ELSE now
                  /\ new.endTime # 0
                  /\ new.questionCount = old.questionCount
                  /\ new.analytics = old.analytics
                  /\ hist'[s] = hist[s]
       /\ procs[p].pc = "feedback"
            => /\ heap[procs[p].state].status = "ended"
               /\ procs'[p] # procs[p] => hist'[procs[p].sid] = hist[procs[p].sid]]_vars

\* An endSession for the session of request p was answered while p was
\* waiting: its record is in a slot below p's, which was taken when p began.
EndedMeanwhile(p) ==
  \E q \in Procs :
    /\ q < p /\ procs[q].op = "end" /\ procs[q].pc = "done"
    /\ procs[q].sid = procs[p].sid

\* C35: when a submitAnswer returns for a stored session on which an
\* endSession was answered while the turn waited on a stage, the stored phase
\* is ended and the endTime is set.
C35_EndNotUndone ==
  [][\A p \in Procs :
       (/\ procs[p].op = "submit" /\ procs[p].pc \in Waiting /\ procs'[p].pc = "done"
        /\ EndedMeanwhile(p)
        /\ procs[p].sid \in DOMAIN store)
         => /\ procs[p].sid \in DOMAIN store'
            /\ heap'[store'[procs[p].sid]].status = "ended"
            /\ heap'[store'[procs[p].sid]].endTime # 0]_vars

\* C36: an id enters the Store only on the step that starts its session; in
\* particular no step of a submitAnswer in flight stores again a session that
\* the deletion following generateEvaluation has removed.
C36_DeletedStaysDeleted ==
  [][\A s \in SessionIds :
       (s \notin DOMAIN store /\ s \in DOMAIN store')
         => /\ s \notin DOMAIN hist
            /\ \E p \in Procs : procs'[p].op = "start" /\ procs'[p].sid = s
                                /\ procs'[p] # procs[p]]_vars

========================================================================
